---- MODULE Spec2Model ----
(***************************************************************************)
(* Model of maintain.py: the uploads-retention batch job.                  *)
(*                                                                         *)
(* The module has two entry points: main(), which loads and validates the  *)
(* configuration and then calls process_folder for every folder, and       *)
(* process_folder(folder) itself, a module-level function that can be      *)
(* called on a folder dictionary directly.                                 *)
(*                                                                         *)
(* Python dictionaries are functions whose DOMAIN is the set of keys that  *)
(* are present.  An optional value (None or a value) is a sequence of      *)
(* length 0 or 1.  Time is counted in days, sizes in bytes.                *)
(***************************************************************************)
EXTENDS Integers, Sequences, FiniteSets, TLC

\* ------------------------------------------------------------------ bounds
MaxFolders == 2
MaxFiles == 2

\* --------------------------------------------------------------- constants
\* 1024 * 1024: the factor that turns configured megabytes into bytes
MB == 1024 * 1024

None == <<>>
Some(x) == <<x>>

\* datetime.now(), in days since the oldest file of the model
Now == 2

\* The directories that exist on disk (os.path.isdir is true of them)
Dirs == {"/d1", "/d2"}

RequiredAttrs == {"name", "upload_path", "max_age", "max_storage"}
FolderAttrs == RequiredAttrs \cup {"warn_storage"}

\* --------------------------------------------------------- pure functions
\* str.strip(): the strings of the model that consist of white space only
Strip(s) == IF s \in {"", " "} THEN "" ELSE s

\* The strings int() accepts, with their values; int() of any other string
\* raises ValueError
IntLiteral == [s \in {"-1", "0", "1", "2", "3"} |->
                 CASE s = "-1" -> -1
                   [] s = "0" -> 0
                   [] s = "1" -> 1
                   [] s = "2" -> 2
                   [] s = "3" -> 3]

IsIntLiteral(s) == s \in DOMAIN IntLiteral

\* validate_attribute: "" when the attribute passes, else the exit message
validate_attribute(folder, attribute, must_have_value) ==
    IF attribute \notin DOMAIN folder
    THEN "attribute missing from configuration"
    ELSE IF must_have_value /\ Strip(folder[attribute]) = ""
    THEN "attribute cannot be empty"
    ELSE ""

\* The first non-empty message of a sequence of messages
RECURSIVE FirstError(_)
FirstError(msgs) ==
    IF msgs = <<>> THEN ""
    ELSE IF Head(msgs) # "" THEN Head(msgs)
    ELSE FirstError(Tail(msgs))

\* validate_folder: the attributes in the order of the code, then the path
validate_folder(folder) ==
    LET attrs == FirstError(<<validate_attribute(folder, "name", TRUE),
                              validate_attribute(folder, "upload_path", TRUE),
                              validate_attribute(folder, "max_age", TRUE),
                              validate_attribute(folder, "max_storage", TRUE),
                              validate_attribute(folder, "warn_storage", FALSE)>>)
    IN IF attrs # "" THEN attrs
       ELSE IF folder["upload_path"] \notin Dirs
       THEN "not a valid directory for upload_path"
       ELSE ""

\* A plausible slip: only the first folder of the list is validated up front
validate_folders_first_only(folders) ==
    IF folders = <<>> THEN "" ELSE validate_folder(folders[1])

\* validate_folders: every folder of the list, in order
validate_folders(folders) ==
    FirstError([i \in 1..Len(folders) |-> validate_folder(folders[i])])

\* ------------------------------------------------------------------ inputs
Folder(p, age, ms, ws) ==
    [name |-> "lounge", upload_path |-> p, max_age |-> age,
     max_storage |-> ms, warn_storage |-> ws]

BaseFolder(p, ms, ws) == Folder(p, "1", ms, ws)

Without(f, k) == [a \in (DOMAIN f) \ {k} |-> f[a]]

StorageStrs == {"-1", "0", "1", "2"}

AgeStrs == {"0", "1"}

\* Folders that pass validation
ValidFolders ==
    {Folder("/d1", age, ms, ws) :
        age \in AgeStrs, ms \in StorageStrs, ws \in StorageStrs \cup {""}}

\* A small set of valid folders, for configurations with several folders
FewValidFolders ==
    {BaseFolder("/d1", "0", "0"), BaseFolder("/d2", "1", "2"), BaseFolder("/d2", "0", "")}

\* Folders with one defect each
DefectiveFolders ==
    LET b == BaseFolder("/d1", "0", "0")
    IN {Without(b, k) : k \in FolderAttrs}
         \cup {[b EXCEPT ![k] = ""] : k \in RequiredAttrs}
         \cup {[b EXCEPT !["name"] = " "], [b EXCEPT !["upload_path"] = "/nodir"]}

SeqsUpTo(S, n) == UNION {[1..k -> S] : k \in 0..n}

FileKinds == [mtime : 0..Now, size : {0, 1, MB}]

\* A directory listing in os.walk order; a file's name is its position
Listings(n) ==
    {[i \in 1..Len(s) |-> [name |-> i, mtime |-> s[i].mtime, size |-> s[i].size]] :
        s \in SeqsUpTo(FileKinds, n)}

SmallListing ==
    <<[name |-> 1, mtime |-> 0, size |-> 1], [name |-> 2, mtime |-> Now, size |-> MB]>>

SlackValues == {None, Some(" "), Some("xoxb")}

\* The keys of the configuration other than "folders"
SlackConfigs == [token : SlackValues, channel : SlackValues]

\* ------------------------------------------------------------------- state
VARIABLES
    entry,             \* "main" or "process_folder": the function that was called
    have_config_file,  \* os.path.isfile(config_file)
    config,            \* the parsed configuration file
    disk,              \* directory |-> the files under it, in os.walk order
    pc,                \* the position of the run
    exit_msg,          \* the message of sys.exit, "" while there is none
    error,             \* the uncaught exception, "" while there is none
    SLACK_TOKEN,
    SLACK_CHANNEL,
    fidx,              \* main's position in the folder list
    pf,                \* the locals of process_folder
    gu,                \* the locals of get_under_max_size
    out,               \* what the run has emitted so far, in order
    last_status,       \* the status of the last HTTP response printed
    removed            \* the <<directory, file>> pairs os.remove was called on

vars == <<entry, have_config_file, config, disk, pc, exit_msg, error,
          SLACK_TOKEN, SLACK_CHANNEL, fidx, pf, gu, out, last_status, removed>>

inputs == <<entry, have_config_file, config>>
globals == <<SLACK_TOKEN, SLACK_CHANNEL>>

NoFolder == [name |-> ""]

\* The frame of process_folder before its first statement
NewFrame(folder) ==
    [folder |-> folder, output_header |-> FALSE, days_to_keep |-> 0,
     max_storage |-> 0, warn_storage |-> None, earliest_date |-> 0,
     total_size |-> 0, file_list |-> <<>>, deleted_files_report |-> <<>>,
     walk |-> <<>>, wi |-> 1]

\* The frame of get_under_max_size before it is called
NoCall ==
    [called |-> FALSE, file_list |-> <<>>, total_size |-> 0, max_storage |-> 0,
     sorted_list |-> <<>>, report |-> <<>>, index |-> 0]

Start(e, hf, c, d, frame, p) ==
    /\ entry = e
    /\ have_config_file = hf
    /\ config = c
    /\ disk = d
    /\ pc = p
    /\ exit_msg = ""
    /\ error = ""
    /\ SLACK_TOKEN = None
    /\ SLACK_CHANNEL = None
    /\ fidx = 1
    /\ pf = frame
    /\ gu = NoCall
    /\ out = <<>>
    /\ last_status = ""
    /\ removed = {}

\* main() on configurations with up to MaxFolders folders, sound or defective,
\* and every combination of the two Slack keys
InitValidation ==
    \E hf \in BOOLEAN, sl \in SlackConfigs,
       fs \in {None} \cup {Some(s) : s \in SeqsUpTo(FewValidFolders \cup DefectiveFolders, MaxFolders)} :
        /\ hf = FALSE => (fs = None /\ sl.token = None /\ sl.channel = None)
        /\ Start("main", hf, [folders |-> fs, token |-> sl.token, channel |-> sl.channel],
                 [d \in Dirs |-> SmallListing], NewFrame(NoFolder), "load_configuration")

\* main() on one valid folder over every listing of up to MaxFiles files
InitProcessing ==
    \E f \in ValidFolders, l \in Listings(MaxFiles), sl \in {None, Some("xoxb")} :
        Start("main", TRUE, [folders |-> Some(<<f>>), token |-> sl, channel |-> sl],
              [d \in Dirs |-> IF d = "/d1" THEN l ELSE <<>>], NewFrame(NoFolder),
              "load_configuration")

\* process_folder(folder) called directly; the Slack globals keep their
\* module-level value None
DirectFolders ==
    {Without(f, "warn_storage") : f \in ValidFolders}
      \cup {Without(BaseFolder("/d1", "0", "0"), k) : k \in RequiredAttrs}
      \cup {BaseFolder("/d1", "1", "")}

InitDirect ==
    \E f \in DirectFolders, l \in Listings(MaxFiles) :
        Start("process_folder", TRUE, [folders |-> Some(<<f>>), token |-> None, channel |-> None],
              [d \in Dirs |-> IF d = "/d1" THEN l ELSE <<>>], NewFrame(f),
              "process_folder")

Init == InitValidation \/ InitProcessing \/ InitDirect

\* ---------------------------------------------------------------- notifier
TransportOutcomes == {"200", "500", "ConnectionError"}

Emitted(via, kind) == [via |-> via, kind |-> kind, folder |-> fidx]

\* sys.exit(msg)
Exit(msg) ==
    /\ pc' = "exit"
    /\ exit_msg' = msg

\* An exception nothing catches ends the run
Raise(exc) ==
    /\ pc' = "crashed"
    /\ error' = exc

\* requests.post followed by print(res.status_code, res.text): the request
\* either raises (no connection) or returns a response of any status
requests_post(kind, next) ==
    \E res \in TransportOutcomes :
        IF res = "ConnectionError"
        THEN /\ Raise(res)
             /\ UNCHANGED <<out, last_status>>
        ELSE /\ out' = Append(out, Emitted("slack", kind))
             /\ last_status' = res
             /\ pc' = next
             /\ UNCHANGED error

\* print(text)
print(kind, next) ==
    /\ out' = Append(out, Emitted("stdout", kind))
    /\ pc' = next
    /\ UNCHANGED <<error, last_status>>

post_message(kind, next) ==
    IF SLACK_CHANNEL = None THEN print(kind, next) ELSE requests_post(kind, next)

upload_file(kind, next) == requests_post(kind, next)

\* The callers' "upload_file if SLACK_CHANNEL is not None else print"
upload_or_print(kind, next) ==
    IF SLACK_CHANNEL # None THEN upload_file(kind, next) ELSE print(kind, next)

\* ------------------------------------------------------------ main, part 1
\* load_configuration: the file, the "folders" key, then every folder
LoadConfiguration ==
    /\ pc = "load_configuration"
    /\ IF ~have_config_file
       THEN Exit("Cannot find configuration file")
       ELSE IF config.folders = None
       THEN Exit("Cannot find 'folders' in configuration")
       ELSE LET msg == validate_folders(config.folders[1])
            IN IF msg # "" THEN Exit(msg)
               ELSE pc' = "main" /\ UNCHANGED exit_msg
    /\ UNCHANGED <<inputs, disk, removed, error, globals, fidx, pf, gu, out, last_status>>

\* The value main() keeps of a Slack key: None when the key is absent or blank
slack_value(v) == IF v # None /\ Strip(v[1]) # "" THEN Some(Strip(v[1])) ELSE None

\* main, the Slack keys: both or neither
MainSlack ==
    /\ pc = "main"
    /\ LET token == slack_value(config.token)
           channel == slack_value(config.channel)
           count == (IF token # None THEN 1 ELSE 0) + (IF channel # None THEN 1 ELSE 0)
       IN /\ SLACK_TOKEN' = token
          /\ SLACK_CHANNEL' = channel
          /\ IF count # 0 /\ count # 2
             THEN Exit("Slack configuration not set correctly")
             ELSE pc' = "loop" /\ UNCHANGED exit_msg
    /\ UNCHANGED <<inputs, disk, removed, error, fidx, pf, gu, out, last_status>>

\* main, "for folder in folders": call process_folder or finish
MainLoop ==
    /\ pc = "loop"
    /\ IF fidx <= Len(config.folders[1])
       THEN /\ pf' = NewFrame(config.folders[1][fidx])
            /\ gu' = NoCall
            /\ pc' = "process_folder"
       ELSE /\ pc' = "done"
            /\ UNCHANGED <<pf, gu>>
    /\ UNCHANGED <<inputs, disk, removed, exit_msg, error, globals, fidx, out, last_status>>

\* ---------------------------------------------------------- process_folder
\* The exception of the statements before the walk, "" when there is none
init_error(folder) ==
    IF "max_age" \notin DOMAIN folder THEN "KeyError"
    ELSE IF ~IsIntLiteral(folder["max_age"]) THEN "ValueError"
    ELSE IF "max_storage" \notin DOMAIN folder THEN "KeyError"
    ELSE IF ~IsIntLiteral(folder["max_storage"]) THEN "ValueError"
    ELSE IF "warn_storage" \in DOMAIN folder /\ ~IsIntLiteral(folder["warn_storage"])
    THEN "ValueError"
    ELSE IF "upload_path" \notin DOMAIN folder THEN "KeyError"
    ELSE ""

\* os.walk(path): the files under path; nothing when path is no directory
os_walk(path) == IF path \in Dirs THEN disk[path] ELSE <<>>

\* process_folder up to the start of the walk
ProcessFolderInit ==
    /\ pc = "process_folder"
    /\ LET folder == pf.folder
           exc == init_error(folder)
       IN IF exc # ""
          THEN Raise(exc) /\ UNCHANGED pf
          ELSE /\ pf' = [pf EXCEPT
                    !.days_to_keep = IntLiteral[folder["max_age"]],
                    !.max_storage = IntLiteral[folder["max_storage"]] * MB,
                    !.warn_storage =
                        IF "warn_storage" \in DOMAIN folder
                        THEN Some(IntLiteral[folder["warn_storage"]] * MB)
                        ELSE None,
                    !.earliest_date = Now - IntLiteral[folder["max_age"]],
                    !.walk = os_walk(folder["upload_path"])]
               /\ pc' = "scan"
               /\ UNCHANGED error
    /\ UNCHANGED <<inputs, disk, removed, exit_msg, globals, fidx, gu, out, last_status>>

\* os.remove(filename): the listing of the directory without the file
RECURSIVE os_remove(_, _)
os_remove(listing, name) ==
    IF listing = <<>> THEN <<>>
    ELSE IF Head(listing).name = name THEN Tail(listing)
    ELSE <<Head(listing)>> \o os_remove(Tail(listing), name)

\* A plausible slip: a file exactly as old as the cutoff counts as expired
is_expired_inclusive(date, earliest_date) == date <= earliest_date

\* "date < earliest_date"
is_expired(date, earliest_date) == date < earliest_date

\* One file of the walk: delete it if it is too old, else keep its record
ScanFile ==
    /\ pc = "scan"
    /\ pf.wi <= Len(pf.walk)
    /\ LET f == pf.walk[pf.wi]
           path == pf.folder["upload_path"]
       IN IF is_expired(f.mtime, pf.earliest_date)
          THEN /\ pf' = [pf EXCEPT
                     !.deleted_files_report = Append(@, [name |-> f.name, mtime |-> f.mtime]),
                     !.wi = @ + 1]
               /\ disk' = [disk EXCEPT ![path] = os_remove(@, f.name)]
               /\ removed' = removed \cup {<<path, f.name>>}
          ELSE /\ pf' = [pf EXCEPT
                     !.file_list = Append(@, f),
                     !.total_size = @ + f.size,
                     !.wi = @ + 1]
               /\ UNCHANGED <<disk, removed>>
    /\ UNCHANGED <<inputs, pc, exit_msg, error, globals, fidx, gu, out, last_status>>

\* The walk is over: "Have we deleted any files?"
ScanDone ==
    /\ pc = "scan"
    /\ pf.wi > Len(pf.walk)
    /\ pc' = IF Len(pf.deleted_files_report) # 0 THEN "age_header" ELSE "storage"
    /\ UNCHANGED <<inputs, disk, removed, exit_msg, error, globals, fidx, pf, gu, out, last_status>>

\* A plausible slip: the header is posted whatever done_header says
need_header_always(done_header) == TRUE

\* report_header's "if not done_header"
need_header(done_header) == ~done_header

HeaderNext == [age_header |-> "age_message", limit_header |-> "limit_message",
               warn_header |-> "warn_message"]

\* output_header = report_header(folder, output_header), at each of its calls;
\* the header names the folder, folder["name"]
ReportHeader ==
    /\ pc \in DOMAIN HeaderNext
    /\ IF need_header(pf.output_header)
       THEN IF "name" \in DOMAIN pf.folder
            THEN post_message("header", HeaderNext[pc])
            ELSE Raise("KeyError") /\ UNCHANGED <<out, last_status>>
       ELSE pc' = HeaderNext[pc] /\ UNCHANGED <<out, error, last_status>>
    /\ pf' = IF pc' = "crashed" THEN pf ELSE [pf EXCEPT !.output_header = TRUE]
    /\ UNCHANGED <<inputs, disk, removed, exit_msg, globals, fidx, gu>>

\* "A number of files have been deleted because they are over N days old"
AgeMessage ==
    /\ pc = "age_message"
    /\ post_message("age_message", "age_upload")
    /\ UNCHANGED <<inputs, disk, removed, exit_msg, globals, fidx, pf, gu>>

\* The old files deleted report
AgeUpload ==
    /\ pc = "age_upload"
    /\ upload_or_print("age_report", "storage")
    /\ UNCHANGED <<inputs, disk, removed, exit_msg, globals, fidx, pf, gu>>

\* A plausible slip: the warning threshold is tested before the limit
storage_outcome_warn_first(total_size, max_storage, warn_storage) ==
    IF warn_storage # None /\ total_size > warn_storage[1] THEN "warning"
    ELSE IF total_size > max_storage THEN "over_limit"
    ELSE "none"

\* "if total_size > max_storage: ... elif total_size > warn_storage: ...";
\* an int compared with None raises TypeError
storage_outcome(total_size, max_storage, warn_storage) ==
    IF total_size > max_storage THEN "over_limit"
    ELSE IF warn_storage = None THEN "TypeError"
    ELSE IF total_size > warn_storage[1] THEN "warning"
    ELSE "none"

\* The two storage tests of process_folder
StorageCheck ==
    /\ pc = "storage"
    /\ LET outcome == storage_outcome(pf.total_size, pf.max_storage, pf.warn_storage)
       IN CASE outcome = "over_limit" -> pc' = "limit_header" /\ UNCHANGED error
            [] outcome = "warning" -> pc' = "warn_header" /\ UNCHANGED error
            [] outcome = "none" -> pc' = "return" /\ UNCHANGED error
            [] OTHER -> Raise(outcome)
    /\ UNCHANGED <<inputs, disk, removed, exit_msg, globals, fidx, pf, gu, out, last_status>>

\* "target = warn_storage if warn_storage is not None else max_storage"
eviction_target(max_storage, warn_storage) ==
    IF warn_storage # None THEN warn_storage[1] ELSE max_storage

\* "Storage is over-limit. Need to free up N bytes", then the call of
\* get_under_max_size(file_list, total_size, target)
LimitMessage ==
    /\ pc = "limit_message"
    /\ post_message("limit_message", "get_under_max_size")
    /\ gu' = IF pc' = "crashed" THEN gu
             ELSE [NoCall EXCEPT
                     !.called = TRUE,
                     !.file_list = pf.file_list,
                     !.total_size = pf.total_size,
                     !.max_storage = eviction_target(pf.max_storage, pf.warn_storage)]
    /\ UNCHANGED <<inputs, disk, removed, exit_msg, globals, fidx, pf>>

\* "WARNING! Total usage is N bytes; warning threshold is M bytes"
WarnMessage ==
    /\ pc = "warn_message"
    /\ post_message("warning", "return")
    /\ UNCHANGED <<inputs, disk, removed, exit_msg, globals, fidx, pf, gu>>

\* ------------------------------------------------------ get_under_max_size
\* x put into a list sorted by date, after every element that is not newer
InsertByDate(sorted, x) ==
    LET k == Cardinality({i \in 1..Len(sorted) : sorted[i].mtime <= x.mtime})
    IN SubSeq(sorted, 1, k) \o <<x>> \o SubSeq(sorted, k + 1, Len(sorted))

RECURSIVE StableSort(_)
StableSort(list) ==
    IF list = <<>> THEN <<>>
    ELSE InsertByDate(StableSort(SubSeq(list, 1, Len(list) - 1)), list[Len(list)])

\* A plausible slip: the list is taken in the order of the walk
unsorted(file_list) == file_list

\* "sorted(file_list, key=lambda x: x[1])": ascending by date, stable
sorted_by_date(file_list) == StableSort(file_list)

\* The statements of get_under_max_size before its loop
GetUnderMaxSizeInit ==
    /\ pc = "get_under_max_size"
    /\ gu' = [gu EXCEPT !.sorted_list = sorted_by_date(gu.file_list), !.index = 0]
    /\ pc' = "evict_loop"
    /\ UNCHANGED <<inputs, disk, removed, exit_msg, error, globals, fidx, pf, out, last_status>>

\* One iteration of "while total_size > max_storage"; sorted_list[index] with
\* index = len(sorted_list) raises IndexError
EvictLoop ==
    /\ pc = "evict_loop"
    /\ IF gu.total_size > gu.max_storage
       THEN IF gu.index >= Len(gu.sorted_list)
            THEN Raise("IndexError") /\ UNCHANGED <<gu, disk, removed>>
            ELSE LET f == gu.sorted_list[gu.index + 1]
                 IN /\ gu' = [gu EXCEPT
                          !.report = Append(@, [name |-> f.name, mtime |-> f.mtime]),
                          !.total_size = @ - f.size,
                          !.index = @ + 1]
                    /\ disk' = [disk EXCEPT ![pf.folder["upload_path"]] = os_remove(@, f.name)]
                    /\ removed' = removed \cup {<<pf.folder["upload_path"], f.name>>}
                    /\ UNCHANGED <<pc, error>>
       ELSE /\ pc' = "evict_report"
            /\ UNCHANGED <<gu, disk, removed, error>>
    /\ UNCHANGED <<inputs, exit_msg, globals, fidx, pf, out, last_status>>

\* The over-quota file deletion report
EvictReport ==
    /\ pc = "evict_report"
    /\ upload_or_print("quota_report", "return")
    /\ UNCHANGED <<inputs, disk, removed, exit_msg, globals, fidx, pf, gu>>

\* ------------------------------------------------------------ main, part 2
\* process_folder returns: to main's loop, or to its direct caller
ProcessFolderReturn ==
    /\ pc = "return"
    /\ IF entry = "main"
       THEN pc' = "loop" /\ fidx' = fidx + 1
       ELSE pc' = "done" /\ UNCHANGED fidx
    /\ UNCHANGED <<inputs, disk, removed, exit_msg, error, globals, pf, gu, out, last_status>>

Next ==
    \/ LoadConfiguration
    \/ MainSlack
    \/ MainLoop
    \/ ProcessFolderInit
    \/ ScanFile
    \/ ScanDone
    \/ ReportHeader
    \/ AgeMessage
    \/ AgeUpload
    \/ StorageCheck
    \/ LimitMessage
    \/ WarnMessage
    \/ GetUnderMaxSizeInit
    \/ EvictLoop
    \/ EvictReport
    \/ ProcessFolderReturn

Spec == Init /\ [][Next]_vars

\* --------------------------------------------------- vocabulary of claims
RECURSIVE SumSizes(_)
SumSizes(list) == IF list = <<>> THEN 0 ELSE Head(list).size + SumSizes(Tail(list))

Names(list) == {list[i].name : i \in 1..Len(list)}

\* The positions of process_folder and of what it calls
FolderPcs == {"process_folder", "scan", "age_header", "age_message", "age_upload",
              "storage", "limit_header", "limit_message", "warn_header",
              "warn_message", "get_under_max_size", "evict_loop", "evict_report",
              "return"}

\* The frame of process_folder has its thresholds and its walk
FrameReady == pc \in FolderPcs \ {"process_folder"}

\* The directory of the folder being processed, as it is on disk now
OnDisk == Names(disk[pf.folder["upload_path"]])

\* The cutoff of the folder being processed, from its configuration
Cutoff == Now - IntLiteral[pf.folder["max_age"]]

\* The emissions of folder f, in order
RECURSIVE KindsOf(_, _)
KindsOf(log, f) ==
    IF log = <<>> THEN <<>>
    ELSE IF Head(log).folder = f THEN <<Head(log).kind>> \o KindsOf(Tail(log), f)
    ELSE KindsOf(Tail(log), f)

HasKind(k) == \E i \in 1..Len(out) : out[i].folder = fidx /\ out[i].kind = k

\* ---------------------------------------------------------------------- C1
\* Position i of the retained list comes before position j in the stable
\* order by date
Before(L, i, j) == L[i].mtime < L[j].mtime \/ (L[i].mtime = L[j].mtime /\ i < j)

EvictionDone == gu.called /\ pc \in {"evict_report", "return"}

\* C1: when get_under_max_size has been called with the retained list, the sum
\* of its sizes and a target >= 0, the files it deleted are exactly the
\* shortest prefix of the list stably sorted by date whose removal brings the
\* total to the target or below: the remaining total is <= target, the deleted
\* files are closed under "older than" (and under "earlier in the walk" among
\* files of one date), the prefix one shorter leaves more than the target, and
\* the files left on disk are the retained files that were not deleted.
C1_ShortestOldestPrefix ==
    (EvictionDone /\ gu.max_storage >= 0 /\ pf.total_size = SumSizes(pf.file_list)) =>
        LET L == gu.file_list
            D == Names(gu.report)
            Del(i) == L[i].name \in D
            kept == {i \in 1..Len(L) : ~Del(i)}
            remaining == SumSizes([i \in 1..Len(L) |->
                                     IF Del(i) THEN [size |-> 0] ELSE L[i]])
        IN /\ L = pf.file_list
           /\ remaining <= gu.max_storage
           /\ gu.total_size = remaining
           /\ \A i, j \in 1..Len(L) : (Del(j) /\ L[i].mtime < L[j].mtime) => Del(i)
           /\ \A i, j \in 1..Len(L) : (Del(j) /\ Before(L, i, j)) => Del(i)
           /\ \A j \in 1..Len(L) :
                (Del(j) /\ \A i \in 1..Len(L) : Del(i) => (i = j \/ Before(L, i, j)))
                    => remaining + L[j].size > gu.max_storage
           /\ Len(gu.report) = Cardinality(D)
           /\ OnDisk = {L[i].name : i \in kept}

\* Eviction of a list the walk met newest first: the older file, second in
\* the walk, is the one deleted
C1_Witness ==
    /\ EvictionDone
    /\ gu.max_storage >= 0
    /\ Len(gu.file_list) = 2
    /\ gu.file_list[1].mtime > gu.file_list[2].mtime
    /\ Names(gu.report) = {gu.file_list[2].name}

\* ---------------------------------------------------------------------- C2
\* C2: every file the scan has visited that is older than the cutoff
\* (now - maxAgeDays) is gone from disk and named in the expired-files report;
\* every other visited file is still on disk (until eviction starts), is in
\* the retained list exactly once, and the total is the sum of the retained
\* sizes.  At the end of the scan every file has been visited.
C2_ScanPartition ==
    FrameReady =>
        /\ \A i \in 1..(pf.wi - 1) :
              LET f == pf.walk[i]
              IN IF f.mtime < Cutoff
                 THEN /\ f.name \notin OnDisk
                      /\ f.name \in Names(pf.deleted_files_report)
                      /\ f.name \notin Names(pf.file_list)
                 ELSE /\ gu.report = <<>> => f.name \in OnDisk
                      /\ Cardinality({k \in 1..Len(pf.file_list) : pf.file_list[k] = f}) = 1
                      /\ f.name \notin Names(pf.deleted_files_report)
        /\ pf.total_size = SumSizes(pf.file_list)
        /\ Len(pf.file_list) + Len(pf.deleted_files_report) = pf.wi - 1
        /\ pc # "scan" => pf.wi = Len(pf.walk) + 1

\* A finished scan that met an expired file and a file exactly at the cutoff
C2_Witness ==
    /\ pc = "age_header"
    /\ \E i, j \in 1..Len(pf.walk) :
          pf.walk[i].mtime < Cutoff /\ pf.walk[j].mtime = Cutoff

\* ---------------------------------------------------------------------- C3
AfterStorageCheck == {"limit_header", "limit_message", "warn_header", "warn_message",
                      "get_under_max_size", "evict_loop", "evict_report", "return"}

EvictionPcs == {"limit_header", "limit_message", "get_under_max_size", "evict_loop",
                "evict_report"}

\* C3: the warning is emitted only when total > warnStorageBytes and
\* total <= maxStorageBytes, and then no retained file is deleted; whenever
\* total > maxStorageBytes the eviction branch is taken, whatever the warn
\* threshold is; eviction and warning never both happen for a folder.
C3_WarnOrEvict ==
    FrameReady =>
        /\ (pc \in {"warn_header", "warn_message"} \/ HasKind("warning")) =>
              /\ pf.warn_storage # None
              /\ pf.total_size > pf.warn_storage[1]
              /\ pf.total_size <= pf.max_storage
              /\ ~gu.called
              /\ Names(pf.file_list) \subseteq OnDisk
        /\ (pc \in AfterStorageCheck /\ pf.total_size > pf.max_storage) =>
              /\ pc \in EvictionPcs \/ (pc = "return" /\ gu.called)
              /\ ~HasKind("warning")
        /\ (pc \in EvictionPcs \/ gu.called) =>
              /\ pf.total_size > pf.max_storage
              /\ ~HasKind("warning")

\* Both thresholds are exceeded and eviction, not the warning, has happened
C3_Witness ==
    /\ pc = "return"
    /\ gu.called
    /\ pf.warn_storage # None
    /\ pf.total_size > pf.warn_storage[1]
    /\ pf.warn_storage[1] >= 0
    /\ pf.total_size > pf.max_storage

\* ---------------------------------------------------------------------- C7
Count(kinds, k) == Cardinality({i \in 1..Len(kinds) : kinds[i] = k})

\* C7: for every folder the header is emitted at most once, every report of
\* the folder (expired-file message or report, over-limit message, deletion
\* report, warning) comes after the header, and the header is emitted only if
\* the folder has something to report: files were deleted for their age or the
\* total exceeds a threshold.
C7_HeaderOnceBeforeReports ==
    /\ \A f \in 1..(MaxFolders + 1) :
          LET kinds == KindsOf(out, f)
          IN /\ Count(kinds, "header") <= 1
             /\ kinds # <<>> => kinds[1] = "header"
             /\ (fidx > f \/ pc = "done") => Len(kinds) # 1
    /\ (FrameReady /\ HasKind("header")) =>
          \/ Len(pf.deleted_files_report) # 0
          \/ pf.total_size > pf.max_storage
          \/ (pf.warn_storage # None /\ pf.total_size > pf.warn_storage[1])
    /\ (FrameReady /\ HasKind("header") /\ pc \notin DOMAIN HeaderNext) => pf.output_header

\* A folder that reported expired files and an over-limit eviction under one
\* header
C7_Witness ==
    /\ pc = "return"
    /\ Count(KindsOf(out, fidx), "header") = 1
    /\ HasKind("age_report")
    /\ HasKind("quota_report")

\* ---------------------------------------------------------------------- C8
HasValue(v) == v # None /\ v[1] \notin {"", " "}

FolderDefect(f) ==
    \/ \E k \in RequiredAttrs : k \notin DOMAIN f \/ f[k] \in {"", " "}
    \/ f["upload_path"] \notin Dirs

\* The configuration errors of the claim, read off the configuration itself
ConfigError ==
    \/ ~have_config_file
    \/ config.folders = None
    \/ \E i \in 1..Len(config.folders[1]) : FolderDefect(config.folders[1][i])
    \/ HasValue(config.token) # HasValue(config.channel)

\* C8: a run of main() whose configuration has an error (no file, no
\* "folders", a folder with a required attribute missing or blank or with an
\* upload_path that is no directory, or exactly one of the two Slack
\* credentials given a value) never calls process_folder: it stays in the
\* validation steps or has exited, no file has been removed and nothing has
\* been emitted.
C8_ConfigErrorStopsBeforeProcessing ==
    (entry = "main" /\ ConfigError) =>
        /\ pc \in {"load_configuration", "main", "exit"}
        /\ pf = NewFrame(NoFolder)
        /\ gu = NoCall
        /\ removed = {}
        /\ out = <<>>
        /\ \A d \in Dirs : disk[d] = SmallListing

\* The run has exited on a defect of the second folder; the first folder is
\* sound and its directory holds a file past its age limit
C8_Witness ==
    /\ entry = "main"
    /\ pc = "exit"
    /\ config.folders # None
    /\ Len(config.folders[1]) = 2
    /\ ~FolderDefect(config.folders[1][1])
    /\ "warn_storage" \in DOMAIN config.folders[1][1]
    /\ FolderDefect(config.folders[1][2])
    /\ HasValue(config.token) = HasValue(config.channel)

\* ---------------------------------------------------------------------- C4
\* C4: with no warn threshold and total <= maxStorageBytes, process_folder
\* raises no error from comparing against the absent threshold.
C4_NoErrorWithoutWarn ==
    ("warn_storage" \notin DOMAIN pf.folder /\ pf.total_size <= pf.max_storage)
        => error # "TypeError"

\* ---------------------------------------------------------------------- C5
SoundWithoutWarn(f) == DOMAIN f = RequiredAttrs /\ ~FolderDefect(f)

\* C5: a configuration whose folders set no warn_storage is accepted by
\* validation, and when the run is done the files left are within
\* maxStorageBytes.
C5_NoWarnAccepted ==
    (/\ entry = "main"
     /\ have_config_file
     /\ config.folders # None
     /\ config.folders[1] # <<>>
     /\ \A i \in 1..Len(config.folders[1]) : SoundWithoutWarn(config.folders[1][i])
     /\ HasValue(config.token) = HasValue(config.channel))
        => /\ pc # "exit"
           /\ pc = "done" => \A i \in 1..Len(config.folders[1]) :
                  SumSizes(disk[config.folders[1][i]["upload_path"]])
                      <= IntLiteral[config.folders[1][i]["max_storage"]] * MB

\* ---------------------------------------------------------------------- C6
\* The thresholds of the folder being processed are non-negative
SaneThresholds ==
    /\ pf.max_storage >= 0
    /\ pf.warn_storage # None => pf.warn_storage[1] >= 0

\* C6: no outcome of a notifier call ends the run: a transport failure is
\* never raised as fatal (stated for folders with non-negative thresholds,
\* where it already fails).
C6_TransportNeverFatal == SaneThresholds => error # "ConnectionError"

\* ---------------------------------------------------------------------- C9
\* C9: the eviction loop never reads past the end of the sorted list, also
\* when the target is negative (stated for runs of main(), whose folders
\* passed validation, where it already fails).
C9_LoopStaysInList ==
    (entry = "main" /\ gu.called /\ pf.total_size = SumSizes(pf.file_list))
        => error # "IndexError"

\* --------------------------------------------------------------------- C10
\* C10: whenever process_folder completes normally, the files left under the
\* folder total at most maxStorageBytes, whatever the warn threshold is
\* (stated for folders with non-negative thresholds, where it already fails).
C10_UnderMaxAfterFolder ==
    (pc = "return" /\ SaneThresholds)
        => SumSizes(disk[pf.folder["upload_path"]]) <= pf.max_storage
====
